---- MODULE Spec2Model ----
(***************************************************************************)
(* CompuBrite::ThreadPool (src/src/compubrite/ThreadPool.cpp,              *)
(* src/include/compubrite/ThreadPool.h, src/include/compubrite/TaskQueue.h)*)
(* as a state machine.                                                     *)
(*                                                                         *)
(* Threads of the program: the worker threads running ThreadPool::svc, one *)
(* controlling thread that calls activate / shutdown / wait one after the  *)
(* other, and any number of submitters calling addTask at any moment.      *)
(* Every access to _mutex, _cv, _active, _tasks and _threads is a step of  *)
(* its own wherever another thread can come in between.                    *)
(***************************************************************************)
EXTENDS Integers, Sequences, FiniteSets

\* ------------------------------------------------------------------ bounds
MaxThreads == 2    \* worker threads ever spawned by activate
MaxTasks   == 2    \* tasks ever submitted

Workers == 1..MaxThreads
TaskIds == 1..MaxTasks

\* Owners of _mutex: 0 when it is free, a worker, or the controlling thread.
NoOwner == 0
Ctl     == MaxThreads + 1

\* What running a task's body can do: return, or raise.  A plain task that
\* returns has incremented the shared counter of the tests; a work function
\* given to addTask<Ret> that returns has produced its value (45 in the test).
Outcomes == {"ok", "raised"}

VARIABLES
    active,     \* ThreadPool::_active
    tasks,      \* ThreadPool::_tasks, front first
    threads,    \* _threads.size(): handles are appended, never erased
    joinable,   \* joinable[w]: std::thread::joinable() of handle w
    mutex,      \* owner of ThreadPool::_mutex
    pc,         \* pc[w]: where worker w is in svc()
    cur,        \* cur[w]: the task worker w copied from the front (0: none)
    ctl,        \* where the controlling thread is
    joinIdx,    \* wait(): position of the range-for over _threads
    kind,       \* kind[t]: "plain" (addTask), "ret" (addTask<Ret>) or "none"
                \* (not submitted)
    outcome,    \* outcome[t]: what the body of t did when it ran, or "none"
    execCount,  \* execCount[t]: number of times task t was invoked
    counter,    \* the shared counter the plain tasks increment
    hstate,     \* hstate[t]: state of the std::promise the submitter holds
    deqLog,     \* the dequeue events, in order
    phase,      \* "fresh"; "shut": shutdown() has returned since the last
                \* activate; "quiesced": and then wait() has returned;
                \* "dtor": ~ThreadPool() is running; "dead": it has returned
    coldSubmit, \* some task was submitted while the pool was not active or
                \* had no worker in svc
    crashed     \* std::terminate was called

\* The other components of the library.  Each is a record of the component's
\* objects: the thread pool does not use them and they do not use the pool.
VARIABLES
    tq,         \* a TaskQueue on its own and the thread that serves it
    sr,         \* string_record: the static repository and the records held
    cp,         \* CheckPoint: the environment, the statics, what was printed
    io,         \* the __int128 stream operators: value, text, stream state
    stk,        \* internal_stack<T>: _top and the frames
    vg,         \* value_guard<T>: the guarded variable and the guards
    dg          \* the last call of active(), threads() or tasks() on the
                \* pool and what it returned

libVars == <<tq, sr, cp, io, stk, vg, dg>>

vars == <<active, tasks, threads, joinable, mutex, pc, cur, ctl, joinIdx, kind,
          outcome, execCount, counter, hstate, deqLog, phase, coldSubmit,
          crashed, libVars>>

poolVars  == <<active, tasks, threads, joinable, mutex, pc, cur>>
taskVars  == <<kind, outcome, execCount, counter, hstate, deqLog, coldSubmit>>
ctlVars   == <<ctl, joinIdx, phase>>

\* All the state of the thread pool.
threadPoolVars == <<poolVars, taskVars, ctlVars, crashed>>

nTasks == Cardinality({t \in TaskIds : kind[t] # "none"})

\* Submissions under way: a worker inside the addTask its task called.  The
\* bound on the submissions counts them.
nSubmitting == Cardinality({w \in Workers : pc[w] = "submit"})

\* ThreadPool() = default: no threads, empty queue, _active{false}.
ThreadPoolInit ==
    /\ active = FALSE
    /\ tasks = <<>>
    /\ threads = 0
    /\ joinable = [w \in Workers |-> FALSE]
    /\ mutex = NoOwner
    /\ pc = [w \in Workers |-> "unborn"]
    /\ cur = [w \in Workers |-> 0]
    /\ ctl = "idle"
    /\ joinIdx = 0
    /\ kind = [t \in TaskIds |-> "none"]
    /\ outcome = [t \in TaskIds |-> "none"]
    /\ execCount = [t \in TaskIds |-> 0]
    /\ counter = 0
    /\ hstate = [t \in TaskIds |-> "none"]
    /\ deqLog = <<>>
    /\ phase = "fresh"
    /\ coldSubmit = FALSE
    /\ crashed = FALSE

\* TaskQueue() = default: an empty list; nothing was taken or run yet.
TaskQueueNew ==
    [queue |-> <<>>, ret |-> <<>>, ran |-> <<>>, svc |-> "none", adds |-> 0]

\* The statics of string_record at program start: _strings and _map empty
\* (string_record.cpp:28-29); no record is held.
StringRecordNew == [strings |-> <<>>, map |-> [s \in {} |-> 0], held |-> <<>>]

\* A process before its first CheckPoint operation, built against header h
\* with CBI_CHECKPOINTS defined, and started with the environment variable
\* CBI_CHECKPOINTS set to the text e (a sequence of characters).  The
\* statics are as checkpoint.cpp:31-35 initialises them.
\* guards: the ScopeGuards of ensure() that are alive; dbg: the debugging
\* CheckPoint constructed last; printed / trapped: an exception CheckPoint
\* has written its message / has called trap(); ended: the trap ended the
\* process.
CheckPointStart(h, e) ==
    [header |-> h, env |-> e,
     init_ |-> FALSE, all_ |-> FALSE, disabled_ |-> FALSE,
     categories_ |-> <<>>, trap_ |-> "noop",
     guards |-> 0, dbg |-> <<>>,
     printed |-> FALSE, trapped |-> FALSE, ended |-> FALSE]

CheckPointNew == CheckPointStart("CheckPoint.h", <<>>)
\* The stream operators before use.  stage "value": a value v is about to
\* be written with the format flags fmt; "text": the stream holds text and
\* the reader is at pos (counted from 0) with failbit / eofbit as in fail /
\* eof; "done": operator>> has returned.  target is the variable given to
\* operator>> and before its value when the call started; typ is the type
\* of the target; rflags are the format flags of the input stream; src is
\* "written" when the text came from operator<< and "given" otherwise.
Int128Stream(stage, v, fmt, text, rflags, src, target) ==
    [stage |-> stage, v |-> v, fmt |-> fmt, text |-> text, pos |-> 0,
     fail |-> FALSE, eof |-> FALSE, rflags |-> rflags, src |-> src,
     target |-> target, before |-> target, typ |-> "none"]

Int128New == Int128Stream("idle", 0, {"dec"}, <<>>, {"dec"}, "given", 0)
\* internal_stack<T> before any frame exists.  Frames are numbered in the
\* order of their construction and 0 is nullptr.  top is _top, prev[f] is
\* the _prev of frame f, alive the frames constructed and not destroyed,
\* policy what CheckPoint does with a failed expectation, failed whether
\* CheckPoint::expect was given a false condition, ended whether the trap
\* ended the process, nested whether every destruction so far was that of
\* the youngest frame alive.
InternalStackStart(policy) ==
    [top |-> 0, prev |-> <<>>, alive |-> {}, policy |-> policy,
     failed |-> FALSE, ended |-> FALSE, nested |-> TRUE]

InternalStackNew == InternalStackStart("noop")
\* A variable and the value_guards on it, the innermost last.  A guard is
\* its original_value_ and, for the record, the value seen in the variable
\* when its constructor was entered; base is the value of the variable
\* when the outermost guard was made.
ValueGuardStart(v) == [target |-> v, guards |-> <<>>, base |-> v]

ValueGuardNew == ValueGuardStart(0)

\* No diagnostic of the pool was called yet.  op is the member function
\* called last, flag / size what it returned, locked whether it took the
\* pool's mutex for the read, raced whether the read fell inside another
\* thread's critical section on the queue.
DiagNew ==
    [op |-> "none", flag |-> FALSE, size |-> 0, locked |-> FALSE, raced |-> FALSE]

\* A program that uses the thread pool only.
Init ==
    /\ ThreadPoolInit
    /\ dg = DiagNew
    /\ tq = TaskQueueNew
    /\ sr = StringRecordNew
    /\ cp = CheckPointNew
    /\ io = Int128New
    /\ stk = InternalStackNew
    /\ vg = ValueGuardNew

\* Threads that are in svc: started and not returned.
InSvc == {w \in Workers : pc[w] \notin {"unborn", "exited"}}

\* ---------------------------------------------------- condition variable
\* Workers blocked inside _cv.wait.
Waiting == {w \in Workers : pc[w] = "waiting"}

\* Mutant: the notification releases no one.
notify_none(p) == p

\* _cv.notify_all(): every thread blocked in wait is released.  A released
\* thread takes the mutex again and evaluates the predicate again, which is
\* what a thread at the top of the loop does after lock(): both are at "lock".
notify_all(p) == [w \in Workers |-> IF p[w] = "waiting" THEN "lock" ELSE p[w]]

\* ------------------------------------------------------------ worker loop
\* Mutant: the predicate looks at the flag only, so a worker of an active
\* pool parks whatever the queue holds.
svc_predicate_inactive == ~active

\* The predicate of _cv.wait: !(_active && _tasks.empty()).
svc_predicate == ~(active /\ tasks = <<>>)

\* Mutant: a worker leaves only when the queue is drained.
svc_exits_drained == ~active /\ tasks = <<>>

\* if (!_active) return;
svc_exits == ~active

\* With the mutex taken: one evaluation of the predicate by
\* _cv.wait(lock, pred) and, when it is true, if (!_active) return.
\* "block": the predicate was false and wait(lock) is about to block;
\* "exited": svc returned and the lock's destructor released the mutex;
\* "take": the worker goes on to the queue, holding the mutex.
\* The two reads of _active are one step: between them only shutdown() can
\* write _active (it takes no lock), it only clears it, and a clear between
\* the reads leaves the worker where a clear before both leaves it.
svc_locked(w) ==
    IF ~svc_predicate THEN "block"
    ELSE IF svc_exits THEN "exited"
    ELSE "take"

\* auto lock = this->lock();  _cv.wait(lock, pred);  if (!_active) return;
\* and, for a thread released from wait, the same from the predicate on.
svc_lock(w) ==
    /\ ~crashed
    /\ UNCHANGED libVars
    /\ pc[w] = "lock"
    /\ mutex = NoOwner
    /\ pc' = [pc EXCEPT ![w] = svc_locked(w)]
    /\ mutex' = IF svc_locked(w) = "exited" THEN NoOwner ELSE w
    /\ UNCHANGED <<active, tasks, threads, joinable, cur>>
    /\ UNCHANGED <<taskVars, ctlVars, crashed>>

\* The predicate was false: wait(lock) releases the mutex and blocks.
svc_block(w) ==
    /\ ~crashed
    /\ UNCHANGED libVars
    /\ pc[w] = "block"
    /\ mutex = w
    /\ mutex' = NoOwner
    /\ pc' = [pc EXCEPT ![w] = "waiting"]
    /\ UNCHANGED <<active, tasks, threads, joinable, cur>>
    /\ UNCHANGED <<taskVars, ctlVars, crashed>>

\* A condition variable may wake without a notification.
svc_spurious(w) ==
    /\ ~crashed
    /\ UNCHANGED libVars
    /\ pc[w] = "waiting"
    /\ pc' = [pc EXCEPT ![w] = "lock"]
    /\ UNCHANGED <<active, tasks, threads, joinable, mutex, cur>>
    /\ UNCHANGED <<taskVars, ctlVars, crashed>>

\* Mutant: the worker takes the task at the back.
front_back(q) == q[Len(q)]

\* auto task = _tasks.front();
front(q) == Head(q)

\* Mutant: the front task is copied and left in the queue.
pop_front_kept(q) == q

\* _tasks.pop_front();
pop_front(q) == Tail(q)

\* Mutant: the worker keeps the mutex while it runs the task.
lock_unlock_skipped(w) == w

\* lock.unlock() before the task is invoked (and the release by the lock's
\* destructor on continue).
lock_unlock(w) == NoOwner

\* if (_tasks.empty()) continue;  else front(), pop_front(), lock.unlock().
svc_take(w) ==
    /\ ~crashed
    /\ UNCHANGED libVars
    /\ pc[w] = "take"
    /\ mutex = w
    /\ mutex' = lock_unlock(w)
    /\ IF tasks = <<>>
         THEN /\ pc' = [pc EXCEPT ![w] = "lock"]
              /\ UNCHANGED <<tasks, cur, deqLog>>
         ELSE /\ cur' = [cur EXCEPT ![w] = front(tasks)]
              /\ tasks' = pop_front(tasks)
              /\ deqLog' = Append(deqLog, front(tasks))
              /\ pc' = [pc EXCEPT ![w] = "run"]
    /\ UNCHANGED <<active, threads, joinable>>
    /\ UNCHANGED <<kind, outcome, execCount, counter, hstate, coldSubmit>>
    /\ UNCHANGED <<ctlVars, crashed>>

\* What the wrapper lambda of addTask<Ret> does to the promise it captured
\* when work returned or raised (r) and that promise is the one the
\* submitter holds:
\* try { auto r = work(); promise.set_value(r); }
\* catch (...) { promise.set_exception(std::current_exception()); }
wrapper_fulfil(r) == IF r = "ok" THEN "value" ELSE "failure"

\* if (task) { task(); }   and back to the top of the loop.
\* A plain task that raises: svc has no handler, the exception leaves the
\* thread function and std::terminate ends the process.
\* A wrapper task: the lambda captured the local promise of
\* TaskQueue::addTask<Ret> by reference.  That local is the submitter's
\* object only where the build elides the copy of the returned promise;
\* elsewhere it is gone when the task runs and the write is undefined: it
\* is lost, or the process dies.
svc_run(w) ==
    /\ ~crashed
    /\ UNCHANGED libVars
    /\ pc[w] = "run"
    /\ LET t == cur[w] IN
        /\ execCount' = [execCount EXCEPT ![t] = @ + 1]
        /\ \/ /\ kind[t] = "plain"
              /\ outcome' = [outcome EXCEPT ![t] = "ok"]
              /\ counter' = counter + 1
              /\ pc' = [pc EXCEPT ![w] = "lock"]
              /\ cur' = [cur EXCEPT ![w] = 0]
              /\ UNCHANGED <<hstate, crashed>>
           \/ /\ kind[t] = "plain"
              /\ outcome' = [outcome EXCEPT ![t] = "raised"]
              /\ crashed' = TRUE
              /\ UNCHANGED <<pc, cur, counter, hstate>>
           \/ /\ kind[t] = "ret"
              /\ \E r \in Outcomes :
                    /\ outcome' = [outcome EXCEPT ![t] = r]
                    /\ \/ /\ hstate' = [hstate EXCEPT ![t] = wrapper_fulfil(r)]
                          /\ pc' = [pc EXCEPT ![w] = "lock"]
                          /\ cur' = [cur EXCEPT ![w] = 0]
                          /\ UNCHANGED crashed
                       \/ /\ pc' = [pc EXCEPT ![w] = "lock"]
                          /\ cur' = [cur EXCEPT ![w] = 0]
                          /\ UNCHANGED <<hstate, crashed>>
                       \/ /\ crashed' = TRUE
                          /\ UNCHANGED <<pc, cur, hstate>>
              /\ UNCHANGED counter
    /\ UNCHANGED <<active, tasks, threads, joinable, mutex>>
    /\ UNCHANGED <<kind, deqLog, coldSubmit, ctlVars>>

\* -------------------------------------------------------------- submission
\* Mutant: the task is put at the front.
emplace_front(q, t) == <<t>> \o q

\* _tasks.emplace_back(std::move(task));
emplace_back(q, t) == Append(q, t)

\* ThreadPool::addTask(Task&&) and operator<<: lock, emplace_back, notify_all.
\* Nothing else runs between the three while the mutex is held.
addTask ==
    /\ ~crashed
    /\ UNCHANGED libVars
    /\ phase # "dead"
    /\ nTasks < MaxTasks
    /\ mutex = NoOwner
    /\ LET t == nTasks + 1 IN
        /\ tasks' = emplace_back(tasks, t)
        /\ kind' = [kind EXCEPT ![t] = "plain"]
    /\ pc' = notify_all(pc)
    /\ coldSubmit' = (coldSubmit \/ ~active \/ InSvc = {})
    /\ UNCHANGED <<active, threads, joinable, mutex, cur>>
    /\ UNCHANGED <<outcome, execCount, counter, hstate, deqLog>>
    /\ UNCHANGED <<ctlVars, crashed>>

\* The body of a running plain task calls addTask on the pool that runs it:
\* auto lock = this->lock() in ThreadPool::addTask, on the worker's thread.
\* "submit": the worker is inside that addTask and holds the mutex.
task_addTask_lock(w) ==
    /\ ~crashed
    /\ UNCHANGED libVars
    /\ pc[w] = "run"
    /\ kind[cur[w]] = "plain"
    /\ nTasks < MaxTasks
    /\ mutex = NoOwner
    /\ mutex' = w
    /\ pc' = [pc EXCEPT ![w] = "submit"]
    /\ UNCHANGED <<active, tasks, threads, joinable, cur>>
    /\ UNCHANGED <<taskVars, ctlVars, crashed>>

\* ... _tasks.emplace_back, _cv.notify_all, return: the lock is released and
\* the body of the task goes on.
task_addTask_emplace(w) ==
    /\ ~crashed
    /\ UNCHANGED libVars
    /\ pc[w] = "submit"
    /\ mutex = w
    /\ LET t == nTasks + 1 IN
        /\ tasks' = emplace_back(tasks, t)
        /\ kind' = [kind EXCEPT ![t] = "plain"]
    /\ pc' = [notify_all(pc) EXCEPT ![w] = "run"]
    /\ mutex' = NoOwner
    /\ coldSubmit' = (coldSubmit \/ ~active)
    /\ UNCHANGED <<active, threads, joinable, cur>>
    /\ UNCHANGED <<outcome, execCount, counter, hstate, deqLog>>
    /\ UNCHANGED <<ctlVars, crashed>>

\* TaskQueue::addTask(Task&&): appends to the back and wakes no one.
TaskQueue_addTask(q, t) == Append(q, t)

\* ThreadPool::addTask<Ret>(work): return _tasks.addTask<Ret>(work);
\* TaskQueue::addTask<Ret> makes the promise, wraps work and appends the
\* wrapper.  Neither takes the pool's mutex, neither notifies _cv.
\* The append is not ordered with a worker that holds the mutex and is at
\* _tasks.empty() / front() / pop_front(): a data race on the list, after
\* which the append took effect or the process dies.
addTaskRet ==
    /\ ~crashed
    /\ UNCHANGED libVars
    /\ phase # "dead"
    /\ nTasks + nSubmitting < MaxTasks
    /\ LET t == nTasks + 1 IN
        /\ tasks' = TaskQueue_addTask(tasks, t)
        /\ kind' = [kind EXCEPT ![t] = "ret"]
        /\ hstate' = [hstate EXCEPT ![t] = "pending"]
    /\ coldSubmit' = (coldSubmit \/ ~active \/ InSvc = {})
    /\ \/ crashed' = crashed
       \/ /\ \E w \in Workers : pc[w] = "take"
          /\ crashed' = TRUE
    /\ UNCHANGED <<active, threads, joinable, mutex, pc, cur>>
    /\ UNCHANGED <<outcome, execCount, counter, deqLog>>
    /\ UNCHANGED ctlVars

\* --------------------------------------------------------------- lifecycle
\* Mutant: the new threads replace the earlier ones, which are stopped.
spawn_replace(p, n) ==
    [w \in Workers |-> IF w > threads /\ w <= threads + n THEN "lock"
                       ELSE IF n > 0 /\ w <= threads THEN "exited"
                       ELSE p[w]]

\* Mutant: one thread more than asked for is started, without a handle.
spawn_extra(p, n) ==
    [w \in Workers |-> IF w > threads /\ w <= threads + n + 1 THEN "lock" ELSE p[w]]

\* _threads.emplace_back(std::thread([this] { svc(); })), n times.
spawn(p, n) ==
    [w \in Workers |-> IF w > threads /\ w <= threads + n THEN "lock" ELSE p[w]]

\* Mutant: activate starts the threads without holding the mutex.
activate_lock_skipped == NoOwner

\* auto lock = this->lock(); in activate: the controlling thread owns the
\* mutex until activate returns.
activate_lock == Ctl

\* activate(nThreads): take the lock and start the threads ...
activate_begin(n) ==
    /\ ~crashed
    /\ UNCHANGED libVars
    /\ phase # "dead"
    /\ ctl = "idle"
    /\ mutex = NoOwner
    /\ threads + n <= MaxThreads
    /\ mutex' = activate_lock
    /\ pc' = spawn(pc, n)
    /\ joinable' = [w \in Workers |->
                      IF w > threads /\ w <= threads + n THEN TRUE ELSE joinable[w]]
    /\ threads' = threads + n
    /\ ctl' = "act"
    /\ phase' = "fresh"
    /\ UNCHANGED <<active, tasks, cur, joinIdx>>
    /\ UNCHANGED <<taskVars, crashed>>

\* Mutant: activate returns without setting the flag.
activate_end_inert ==
    /\ ~crashed
    /\ UNCHANGED libVars
    /\ ctl = "act"
    /\ mutex' = NoOwner
    /\ ctl' = "idle"
    /\ UNCHANGED <<active, tasks, threads, joinable, pc, cur, joinIdx, phase>>
    /\ UNCHANGED <<taskVars, crashed>>

\* ... _active = true; return (the lock is released).
activate_end ==
    /\ ~crashed
    /\ UNCHANGED libVars
    /\ ctl = "act"
    /\ active' = TRUE
    /\ mutex' = NoOwner
    /\ ctl' = "idle"
    /\ UNCHANGED <<tasks, threads, joinable, pc, cur, joinIdx, phase>>
    /\ UNCHANGED <<taskVars, crashed>>

\* Mutant: shutdown flips the flag instead of clearing it.
shutdown_store_toggle ==
    /\ ~crashed
    /\ UNCHANGED libVars
    /\ phase # "dead"
    /\ ctl = "idle"
    /\ active' = ~active
    /\ ctl' = "sd"
    /\ UNCHANGED <<tasks, threads, joinable, mutex, pc, cur>>
    /\ UNCHANGED <<joinIdx, phase, taskVars, crashed>>

\* shutdown(): _active = false;   no lock is taken.
shutdown_store ==
    /\ ~crashed
    /\ UNCHANGED libVars
    /\ phase # "dead"
    /\ ctl = "idle"
    /\ active' = FALSE
    /\ ctl' = "sd"
    /\ UNCHANGED <<tasks, threads, joinable, mutex, pc, cur>>
    /\ UNCHANGED <<joinIdx, phase, taskVars, crashed>>

\* shutdown(): _cv.notify_all(); return.
shutdown_notify ==
    /\ ~crashed
    /\ UNCHANGED libVars
    /\ ctl = "sd"
    /\ pc' = notify_all(pc)
    /\ ctl' = "idle"
    /\ phase' = IF phase = "fresh" THEN "shut" ELSE phase
    /\ UNCHANGED <<active, tasks, threads, joinable, mutex, cur>>
    /\ UNCHANGED <<joinIdx, taskVars, crashed>>

\* Mutant: wait goes for a first handle even when the list is empty.
wait_begin_noempty ==
    /\ ~crashed
    /\ UNCHANGED libVars
    /\ phase # "dead"
    /\ ctl = "idle"
    /\ ctl' = "wnotify"
    /\ joinIdx' = 1
    /\ UNCHANGED phase
    /\ UNCHANGED <<poolVars, taskVars, crashed>>

\* wait(): entering the range-for over _threads; an empty list returns at once.
wait_begin ==
    /\ ~crashed
    /\ UNCHANGED libVars
    /\ phase # "dead"
    /\ ctl = "idle"
    /\ IF threads = 0
         THEN /\ ctl' = "idle"
              /\ joinIdx' = 0
              /\ phase' = IF phase = "shut" THEN "quiesced" ELSE phase
         ELSE /\ ctl' = "wnotify"
              /\ joinIdx' = 1
              /\ UNCHANGED phase
    /\ UNCHANGED <<poolVars, taskVars, crashed>>

\* wait(): _cv.notify_all(); for the handle at joinIdx.
wait_notify ==
    /\ ~crashed
    /\ UNCHANGED libVars
    /\ ctl = "wnotify"
    /\ pc' = notify_all(pc)
    /\ ctl' = "wjoin"
    /\ UNCHANGED <<active, tasks, threads, joinable, mutex, cur>>
    /\ UNCHANGED <<joinIdx, phase, taskVars, crashed>>

\* Mutant: the joinable() test is inverted for a live handle, so it is skipped.
thread_joinable_never(w) == FALSE

\* thread.joinable()
thread_joinable(w) == joinable[w]

\* Mutant: join returns while the thread is still in svc.
thread_join_early(w) == TRUE

\* thread.join() returns when the thread has left svc.
thread_join(w) == pc[w] = "exited"

\* wait(): if (thread.joinable()) thread.join();  after the last handle wait
\* returns.  A handle that was joined is not joinable any more.
wait_join ==
    /\ ~crashed
    /\ UNCHANGED libVars
    /\ ctl = "wjoin"
    /\ thread_joinable(joinIdx) => thread_join(joinIdx)
    /\ joinable' = [joinable EXCEPT ![joinIdx] = FALSE]
    /\ IF joinIdx = threads
         THEN /\ ctl' = "idle"
              /\ joinIdx' = 0
              /\ phase' = IF phase = "shut" THEN "quiesced"
                          ELSE IF phase = "dtor" THEN "dead"
                          ELSE phase
         ELSE /\ ctl' = "wnotify"
              /\ joinIdx' = joinIdx + 1
              /\ UNCHANGED phase
    /\ UNCHANGED <<active, tasks, threads, mutex, pc, cur>>
    /\ UNCHANGED <<taskVars, crashed>>

\* ~ThreadPool(): shutdown(); wait();   The first step is shutdown's
\* _active = false.  phase "dtor": the destructor is running; "dead": it has
\* returned and the object is gone, so nothing is called on it any more.
dtor_begin ==
    /\ ~crashed
    /\ UNCHANGED libVars
    /\ phase # "dead"
    /\ ctl = "idle"
    /\ active' = FALSE
    /\ ctl' = "dsd"
    /\ phase' = "dtor"
    /\ UNCHANGED <<tasks, threads, joinable, mutex, pc, cur>>
    /\ UNCHANGED <<joinIdx, taskVars, crashed>>

\* ~ThreadPool(): shutdown's _cv.notify_all() and return, then wait() enters
\* its range-for: with no handle wait returns and so does the destructor.
dtor_notify ==
    /\ ~crashed
    /\ UNCHANGED libVars
    /\ ctl = "dsd"
    /\ pc' = notify_all(pc)
    /\ IF threads = 0
         THEN /\ ctl' = "idle"
              /\ joinIdx' = 0
              /\ phase' = "dead"
         ELSE /\ ctl' = "wnotify"
              /\ joinIdx' = 1
              /\ UNCHANGED phase
    /\ UNCHANGED <<active, tasks, threads, joinable, mutex, cur>>
    /\ UNCHANGED <<taskVars, crashed>>

\* ------------------------------------------------------------------ system
WorkerStep(w) ==
    \/ svc_lock(w)
    \/ svc_block(w)
    \/ svc_take(w)
    \/ svc_run(w)
    \/ task_addTask_emplace(w)

CtlStep ==
    \/ activate_end
    \/ shutdown_notify
    \/ wait_notify
    \/ wait_join
    \/ dtor_notify

Next ==
    \/ \E w \in Workers : WorkerStep(w)
    \/ \E w \in Workers : svc_spurious(w)
    \/ addTask
    \/ addTaskRet
    \/ \E w \in Workers : task_addTask_lock(w)
    \/ \E n \in 0..MaxThreads : activate_begin(n)
    \/ shutdown_store
    \/ wait_begin
    \/ dtor_begin
    \/ CtlStep

Spec == Init /\ [][Next]_vars

\* The scheduler runs every thread that can take a step: a worker that is not
\* blocked goes on, and a call the controlling thread is in goes on.  Nothing
\* obliges a submitter to submit, the controlling thread to start a call, or
\* the condition variable to wake spuriously.
FairSpec ==
    /\ Spec
    /\ \A w \in Workers : WF_vars(WorkerStep(w))
    /\ WF_vars(CtlStep)

\* As FairSpec, and a worker at lock() that finds the mutex free again and
\* again gets it: it is not overtaken for ever by the other threads.
LockFairSpec ==
    /\ Spec
    /\ \A w \in Workers : SF_vars(WorkerStep(w))
    /\ WF_vars(CtlStep)

\* --------------------------------------------------------------- vocabulary
Submitted == {t \in TaskIds : kind[t] # "none"}
Queued    == {tasks[i] : i \in 1..Len(tasks)}
Dequeued  == {deqLog[i] : i \in 1..Len(deqLog)}
Held(t)   == \E w \in Workers : pc[w] \in {"run", "submit"} /\ cur[w] = t
Holders(t) == {w \in Workers : pc[w] \in {"run", "submit"} /\ cur[w] = t}
Positions(t) == {i \in 1..Len(tasks) : tasks[i] = t}
Exits(w)  == pc[w] # "exited" /\ pc'[w] = "exited"
InWait    == ctl \in {"wnotify", "wjoin"}

\* ------------------------------------------------------------------- C1
\* C1 as stated: every task submitted to an active pool is executed exactly
\* once; in particular once shutdown() and wait() have returned, when no
\* worker is left to run anything, each of them has been executed.
C1_ExecutedExactlyOnce ==
    /\ \A t \in Submitted : execCount[t] <= 1
    /\ (phase = "quiesced" /\ ~coldSubmit) =>
          \A t \in Submitted : execCount[t] = 1

\* C1 as amended: no task is executed twice and none is lost: a task that
\* has not been executed is still in the queue, once, or in the hands of
\* exactly one worker that runs it; a task that was executed is in neither
\* place.  (A task still queued when the workers observe shutdown() is not
\* executed.)
C1_AtMostOnceNeverLost ==
    \A t \in Submitted :
        /\ execCount[t] <= 1
        /\ execCount[t] = 0 =>
              Cardinality(Positions(t)) + Cardinality(Holders(t)) = 1
        /\ (execCount[t] = 1 /\ ~crashed) =>
              Positions(t) = {} /\ Holders(t) = {}

\* Two workers have raced for two tasks submitted to the active pool, and
\* each task has been executed once.
C1_Witness ==
    /\ threads = 2
    /\ ~coldSubmit
    /\ Len(deqLog) = 2
    /\ \A t \in 1..2 : kind[t] = "plain" /\ execCount[t] = 1
    /\ \A w \in 1..2 : pc[w] \notin {"unborn", "exited"}

\* ------------------------------------------------------------------- C2
\* C2: tasks leave the queue in the order they entered it.  Task ids count
\* the enqueue events, so the i-th dequeue event is task i, and what is
\* left in the queue is the later tasks in order.
C2_Fifo ==
    /\ \A i \in 1..Len(deqLog) : deqLog[i] = i
    /\ \A i \in 1..Len(tasks) : tasks[i] = Len(deqLog) + i

\* Both workers are running a task: two dequeue events by two workers.
C2_Witness ==
    /\ Len(deqLog) >= 2
    /\ pc[1] = "run" /\ pc[2] = "run"
    /\ cur[1] # cur[2]

\* ------------------------------------------------------------------- C3
PlainTasks == {t \in Submitted : kind[t] = "plain"}

\* C3 as stated: N counter-incrementing tasks submitted to the activated
\* pool; once shutdown() and wait() have returned the counter is N.
C3_CounterIsN ==
    (phase = "quiesced" /\ ~coldSubmit /\ PlainTasks = Submitted) =>
        counter = nTasks

\* C3 as amended: once shutdown() and wait() have returned, the counter is
\* the number of counter tasks that were dequeued: N less those still in the
\* queue, which no worker will run.
C3_CounterIsDequeued ==
    phase = "quiesced" =>
        counter = Cardinality(PlainTasks) - Cardinality(PlainTasks \cap Queued)

\* shutdown() and wait() returned with one task executed and one abandoned.
C3_Witness ==
    /\ phase = "quiesced"
    /\ ~coldSubmit
    /\ PlainTasks = {1, 2}
    /\ counter = 1
    /\ tasks = <<2>>

\* ------------------------------------------------------------------- C4
\* C4: a wait() that follows shutdown() returns (unless the process died).
C4_WaitReturns ==
    (InWait /\ phase = "shut") ~> (ctl = "idle" \/ crashed)

\* ------------------------------------------------------------------- C5
\* C5: after shutdown() and wait() no worker is running and threads() is 0.
C5_NoWorkersLeft ==
    phase = "quiesced" => (InSvc = {} /\ threads = 0)

\* ------------------------------------------------------------------- C6
\* C6: once the wrapper task has run, the submitter's promise holds what
\* work returned or raised.
C6_HandleResolves ==
    \A t \in Submitted :
        (kind[t] = "ret" /\ outcome[t] # "none") =>
            hstate[t] = wrapper_fulfil(outcome[t])

\* ------------------------------------------------------------------- C7
\* C7: a submission with addTask<Ret> made while workers are parked on the
\* condition wakes at least one of them.
C7_SubmitWakesWorker ==
    [][(addTaskRet /\ Waiting # {}) =>
          \E w \in Waiting : pc'[w] # "waiting"]_vars

\* ------------------------------------------------------------------- C8
\* C8: a task a worker has dequeued is run to completion whatever shutdown()
\* does meanwhile, and wait() does not return before: a handle wait() has
\* joined belongs to a thread that left svc with no task in hand, and once
\* shutdown() and wait() have returned every dequeued task has been executed.
C8_DequeuedTaskCompletes ==
    /\ \A w \in 1..threads :
          ~joinable[w] => (pc[w] = "exited" /\ cur[w] = 0)
    /\ \A w \in Workers :
          (pc[w] = "run" /\ ~crashed) =>
              (cur[w] \in Dequeued /\ execCount[cur[w]] = 0)
    /\ phase = "quiesced" => \A t \in Dequeued : execCount[t] = 1

\* shutdown() was called while worker 1 runs a task, and wait() is blocked
\* joining it.
C8_Witness ==
    /\ ~active
    /\ phase = "shut"
    /\ ctl = "wjoin" /\ joinIdx = 1
    /\ pc[1] = "run"

\* ------------------------------------------------------------------- C9
\* C9: a plain task that raises does not end the worker or the process.
C9_WorkerSurvivesFailure ==
    \A t \in Submitted :
        (kind[t] = "plain" /\ outcome[t] = "raised") => ~crashed

\* ------------------------------------------------------------------ C10
\* C10 as stated: a worker exits only when the pool is inactive and the
\* queue is empty.
C10_ExitsOnlyWhenDrained ==
    [][\A w \in Workers : Exits(w) => (~active /\ tasks = <<>>)]_vars

\* C10 as amended: a worker exits only when the pool is inactive, whether or
\* not the queue is empty; a worker that takes the lock while the pool is
\* inactive exits without taking a task, and the queued tasks stay queued.
C10_ExitsWhenInactive ==
    [][\A w \in Workers :
          /\ Exits(w) => (~active /\ tasks' = tasks)
          /\ (pc[w] = "lock" /\ pc'[w] # "lock" /\ ~active) =>
                Exits(w)]_vars

\* A worker has exited and left a task in the queue that was submitted while
\* the pool was active.
C10_Witness ==
    /\ pc[1] = "exited"
    /\ ~coldSubmit
    /\ tasks # <<>>

\* ------------------------------------------------------------------ C11
\* C11: every dequeue event happens while the activity flag is set.
C11_NoDequeueAfterClear ==
    [][Len(deqLog') > Len(deqLog) => active]_vars

\* ------------------------------------------------------------------ C12
\* C12: a task queued before the workers exist is still queued when
\* activate returns (activate does not touch the queue), and the worker
\* activate spawned, which is at the top of its loop, runs it without any
\* further submission: while the pool is active, the task at the front of
\* the queue is executed once a worker is at the top of its loop, unless
\* shutdown() clears the flag first or the process dies.
C12_QueuedBeforeActivateRuns ==
    /\ [][((\E n \in 0..MaxThreads : activate_begin(n)) \/ activate_end)
            => tasks' = tasks]_vars
    /\ \A t \in TaskIds :
          (/\ active
           /\ tasks # <<>>
           /\ Head(tasks) = t
           /\ \E w \in Workers : pc[w] = "lock")
              ~> (execCount[t] = 1 \/ ~active \/ crashed)

\* The only task was submitted while no worker was in svc or the pool was
\* inactive, one worker was spawned since, and it has run the task.
C12_Witness ==
    /\ coldSubmit
    /\ nTasks = 1
    /\ threads = 1
    /\ phase = "fresh"
    /\ active
    /\ deqLog = <<1>>
    /\ execCount[1] = 1

\* ------------------------------------------------------------------ C13
\* C13: shutdown() on a pool whose flag is already clear leaves the flag,
\* the queue, the handles and the set of threads in svc as they are: the
\* store changes nothing and the notification stops or starts no thread.
C13_ShutdownIdempotent ==
    [][/\ (shutdown_store /\ ~active) =>
             UNCHANGED <<active, tasks, threads, joinable, pc>>
       /\ shutdown_notify =>
             (UNCHANGED <<active, tasks, threads, joinable>> /\ InSvc' = InSvc)]_vars

\* A second shutdown() is between its store and its notification, on a pool
\* that holds a task and a worker still in svc.
C13_Witness ==
    /\ phase = "shut"
    /\ ctl = "sd"
    /\ InSvc # {}
    /\ tasks # <<>>

\* ------------------------------------------------------------------ C14
\* C14: activate(n) adds n handles and n threads in svc to those there
\* are, and no earlier thread or handle is touched, by the spawning or by
\* the store of the flag.
C14_WorkersAccumulate ==
    [][/\ \A n \in 0..MaxThreads : activate_begin(n) =>
             /\ threads' = threads + n
             /\ InSvc' = InSvc \cup ((threads + 1)..(threads + n))
             /\ \A w \in 1..threads :
                   pc'[w] = pc[w] /\ joinable'[w] = joinable[w]
       /\ activate_end => UNCHANGED <<threads, joinable, pc>>]_vars

\* A second activate has just spawned worker 2 while worker 1, spawned by an
\* earlier activate, is parked or runs a task.
C14_Witness ==
    /\ ctl = "act"
    /\ threads = 2
    /\ pc[2] = "lock"
    /\ pc[1] \in {"waiting", "run"}
    /\ joinable[1]

\* ------------------------------------------------------------------ C15
\* C15: activate(0) leaves the flag, the workers and the queue unchanged.
\* (With no handle in _threads the call that ends is an activate(0).)
C15_ActivateZeroNoOp ==
    [][/\ activate_begin(0) => UNCHANGED <<active, tasks, threads, joinable, pc>>
       /\ (activate_end /\ threads = 0) =>
             UNCHANGED <<active, tasks, threads, joinable, pc>>]_vars

\* ------------------------------------------------------------------ C16
\* C16: active() is true only if a worker thread is running.
C16_ActiveImpliesWorker ==
    active => InSvc # {}

\* ------------------------------------------------------------------ C17
\* C17: the destructor returns only when no thread is in svc, and it always
\* returns (unless the process died).
C17_DestructorJoinsAndReturns ==
    /\ [](phase = "dead" => InSvc = {})
    /\ (phase = "dtor") ~> (phase = "dead" \/ crashed)

\* ------------------------------------------------------------------ C18
\* C18: once shutdown() and wait() have returned the pool is inactive and no
\* thread is in svc; a further activate(n) puts n new threads in svc and sets
\* the flag; and in an active pool with a thread in svc a queued task
\* submitted with addTask is executed, unless shutdown() clears the flag
\* first or the process dies.
C18_LifecycleRepeats ==
    /\ [](phase = "quiesced" => (~active /\ InSvc = {}))
    /\ [][/\ \A n \in 0..MaxThreads :
                (phase = "quiesced" /\ activate_begin(n)) =>
                    InSvc' = (threads + 1)..(threads + n)
          /\ activate_end => active']_vars
    /\ \A t \in TaskIds :
          (/\ active
           /\ InSvc # {}
           /\ kind[t] = "plain"
           /\ t \in Queued)
              ~> (execCount[t] = 1 \/ ~active \/ crashed)

\* Worker 1 left svc after a shutdown() and a wait() joined it and returned;
\* an activate called after that wait() spawned worker 2, whose handle is
\* still to be joined; the pool is active again and worker 2 runs task 2,
\* submitted to an active pool.
C18_Witness ==
    /\ threads = 2
    /\ ctl = "idle"
    /\ pc[1] = "exited"
    /\ ~joinable[1]
    /\ joinable[2]
    /\ active
    /\ ~coldSubmit
    /\ execCount[1] = 1
    /\ pc[2] = "run"
    /\ cur[2] = 2
    /\ kind[2] = "plain"

\* ------------------------------------------------------------------ C19
\* A pool with no handle and a clear flag: never activated (or activated
\* with no thread and shut down, which is the same state).
NeverActivated == threads = 0 /\ ~active

\* C19: on a pool that was never activated wait(), shutdown() and the
\* destructor return without waiting for anything and leave the flag, the
\* queue and the empty set of workers as they are.
C19_MisuseBenign ==
    [][NeverActivated =>
         /\ wait_begin =>
               (ctl' = "idle" /\ UNCHANGED <<active, tasks, threads, pc>>)
         /\ shutdown_store => UNCHANGED <<active, tasks, threads, pc>>
         /\ shutdown_notify =>
               (ctl' = "idle" /\ UNCHANGED <<active, tasks, threads, pc>>)
         /\ dtor_begin => UNCHANGED <<active, tasks, threads, pc>>
         /\ dtor_notify =>
               (/\ ctl' = "idle"
                /\ phase' = "dead"
                /\ UNCHANGED <<active, tasks, threads, pc>>)]_vars

\* A pool that never had a worker has been destroyed with a task still in
\* its queue.
C19_Witness ==
    /\ threads = 0
    /\ ~active
    /\ phase = "dead"
    /\ tasks # <<>>

\* ------------------------------------------------------------------ C20
\* C20: the promise the submitter holds is pending until the wrapper runs,
\* and every execution of the wrapper leaves it with a value or with a
\* failure: exactly one of set_value / set_exception took effect.
C20_FulfilledExactlyOnce ==
    \A t \in Submitted :
        kind[t] = "ret" =>
            /\ (execCount[t] = 0 => hstate[t] = "pending")
            /\ ((execCount[t] = 1 /\ ~crashed) =>
                  hstate[t] \in {"value", "failure"})

\* ------------------------------------------------------------------ C21
\* C21: addTask can be called by a running task on its own pool.  A worker
\* that runs a task does not hold the mutex, so the lock() in addTask is
\* not a second lock by the same thread; a mutex that another thread holds
\* is released, so the lock() is granted; the call appends the new task at
\* the back, returns, and leaves the worker in the body of its task; and
\* the task at the back of the queue of an active pool is executed by a
\* worker, unless shutdown() clears the flag first or the process dies.
C21_ReentrantAddTask ==
    /\ [](\A w \in Workers : pc[w] = "run" => mutex # w)
    /\ [][\A w \in Workers :
            task_addTask_emplace(w) =>
                /\ tasks' = Append(tasks, nTasks + 1)
                /\ kind'[nTasks + 1] = "plain"
                /\ pc'[w] = "run"
                /\ mutex' = NoOwner]_vars
    /\ (mutex # NoOwner) ~> (mutex = NoOwner \/ crashed)
    /\ \A w \in Workers : (pc[w] = "submit") ~> (pc[w] = "run" \/ crashed)
    /\ \A w \in Workers : \A t \in TaskIds :
          (/\ active
           /\ pc[w] = "run"
           /\ tasks # <<>>
           /\ tasks[Len(tasks)] = t
           /\ kind[t] = "plain")
              ~> (execCount[t] = 1 \/ ~active \/ crashed)

\* The only worker of an active pool is inside the addTask that the task it
\* runs has called, and holds the mutex: a first task was submitted, and
\* dequeued, before.
C21_Witness ==
    /\ active
    /\ threads = 1
    /\ pc[1] = "submit"
    /\ mutex = 1
    /\ cur[1] = 1
    /\ tasks = <<>>

\* =================================================================== C22
\* TaskQueue on its own, and one thread that serves it the way
\* ThreadPool::svc serves the pool's queue (ThreadPool.cpp:51-59).
MaxAdds == 3    \* tasks ever added to the queue

\* A default-constructed std::function<void()>: it holds no callable.
NullTask == 0

\* TaskQueue::pop() (TaskQueue::take() of the earlier header): on an empty
\* queue a null Task and the queue as it is, otherwise the front task and
\* the queue without it.
TaskQueue_pop(q) ==
    IF q = <<>> THEN [task |-> NullTask, queue |-> q]
    ELSE [task |-> Head(q), queue |-> Tail(q)]

\* Mutant: the task is invoked without the test.
task_callable_always(t) == TRUE

\* if (task): a std::function converts to true when it holds a callable.
task_callable(t) == t # NullTask

\* add / addTask: the client hands over a callable (the next id) or a
\* default-constructed Task.
tq_add(t) ==
    /\ tq.adds < MaxAdds
    /\ t \in {NullTask, tq.adds + 1}
    /\ tq' = [tq EXCEPT !.queue = TaskQueue_addTask(@, t), !.adds = @ + 1]
    /\ UNCHANGED <<threadPoolVars, dg, sr, cp, io, stk, vg>>

\* The client calls pop() / take() and keeps what it returns.
tq_take ==
    /\ tq' = [tq EXCEPT !.queue = TaskQueue_pop(tq.queue).queue,
                         !.ret = <<TaskQueue_pop(tq.queue).task>>]
    /\ UNCHANGED <<threadPoolVars, dg, sr, cp, io, stk, vg>>

\* One turn of the serving loop:
\* if (_tasks.empty()) continue;
\* auto task = _tasks.front(); _tasks.pop_front(); if (task) task();
\* svc: what the turn found ("empty", "null", or "ran" for a task invoked).
tq_svc ==
    /\ IF tq.queue = <<>>
         THEN tq' = [tq EXCEPT !.svc = "empty"]
         ELSE LET task == front(tq.queue) IN
              IF task_callable(task)
                THEN tq' = [tq EXCEPT !.queue = pop_front(@),
                                      !.ran = Append(@, task),
                                      !.svc = "ran"]
                ELSE tq' = [tq EXCEPT !.queue = pop_front(@),
                                      !.svc = "null"]
    /\ UNCHANGED <<threadPoolVars, dg, sr, cp, io, stk, vg>>

TaskQueueInit ==
    /\ ThreadPoolInit
    /\ dg = DiagNew
    /\ tq = TaskQueueNew
    /\ sr = StringRecordNew
    /\ cp = CheckPointNew
    /\ io = Int128New
    /\ stk = InternalStackNew
    /\ vg = ValueGuardNew

TaskQueueNext ==
    \/ \E t \in 0..MaxAdds : tq_add(t)
    \/ tq_take
    \/ tq_svc

TaskQueueSpec == TaskQueueInit /\ [][TaskQueueNext]_vars

MaxCalls == 4    \* calls of from_string

\* The strings of the tests, the empty string among them.
Strs == {"", "hello", "world", "baz"}

\* string_record::string_record(): _index = _strings.size();
string_record_ctor(strings) == Len(strings)

\* Mutant: the lookup never finds the string.
map_find_never(map, s) == FALSE

\* _map.find(str) != _map.end()
map_find(map, s) == s \in DOMAIN map

\* _map.insert({str, r}): a key that is there already keeps its record.
map_insert(map, s, r) ==
    IF s \in DOMAIN map THEN map
    ELSE [k \in DOMAIN map \cup {s} |-> IF k = s THEN r ELSE map[k]]

\* Mutant: the new string goes to the front of the repository.
strings_emplace_front(strings, s) == <<s>> \o strings

\* _strings.emplace_back(str);
strings_emplace_back(strings, s) == Append(strings, s)

\* string(): _strings[_index], the vector counting from 0.
record_string(strings, index) == strings[index + 1]

\* string_record::from_string(str); the program keeps the record returned,
\* next to the string it asked for.
from_string(s) ==
    /\ Len(sr.held) < MaxCalls
    /\ IF map_find(sr.map, s)
         THEN sr' = [sr EXCEPT
                        !.held = Append(@, [str |-> s, index |-> sr.map[s]])]
         ELSE LET r == string_record_ctor(sr.strings) IN
              sr' = [sr EXCEPT
                        !.strings = strings_emplace_back(@, s),
                        !.map = map_insert(@, s, r),
                        !.held = Append(@, [str |-> s, index |-> r])]
    /\ UNCHANGED <<threadPoolVars, dg, tq, cp, io, stk, vg>>

StringRecordInit ==
    /\ ThreadPoolInit
    /\ dg = DiagNew
    /\ tq = TaskQueueNew
    /\ sr = StringRecordNew
    /\ cp = CheckPointNew
    /\ io = Int128New
    /\ stk = InternalStackNew
    /\ vg = ValueGuardNew

StringRecordNext == \E s \in Strs : from_string(s)

StringRecordSpec == StringRecordInit /\ [][StringRecordNext]_vars

\* C23: two records the program holds have the same index exactly when
\* they were obtained from equal strings.
C23_Interning ==
    \A i \in 1..Len(sr.held) : \A j \in 1..Len(sr.held) :
        (sr.held[i].str = sr.held[j].str) <=>
            (sr.held[i].index = sr.held[j].index)

\* The empty string was interned twice with another string in between.
C23_Witness ==
    /\ Len(sr.held) >= 3
    /\ sr.held[1].str = ""
    /\ sr.held[2].str = "hello"
    /\ sr.held[3].str = ""
    /\ sr.held[1].index = sr.held[3].index

\* C24: string() of every record the program holds, however early it was
\* obtained, is the string it was obtained from.
C24_RoundTrip ==
    \A i \in 1..Len(sr.held) :
        record_string(sr.strings, sr.held[i].index) = sr.held[i].str

\* The first record was obtained from "hello"; two other strings were
\* added to the repository since, and it still reads "hello".
C24_Witness ==
    /\ Len(sr.strings) >= 3
    /\ sr.held[1].str = "hello"
    /\ record_string(sr.strings, sr.held[1].index) = "hello"

\* ============================================================= C25, C26
\* CheckPoint (src/src/compubrite/checkpoint.cpp and the two headers,
\* src/include/compubrite/checkpoint.h and the later
\* src/include/CompuBrite/CheckPoint.h), compiled with CBI_CHECKPOINTS.
\* A text is the sequence of its characters.
MaxEnvLen == 4    \* length of the generated values of CBI_CHECKPOINTS
MaxGuards == 2    \* ensure() guards alive at once

Headers == {"checkpoint.h", "CheckPoint.h"}

Star         == <<"*">>
All          == <<"a", "l", "l">>
ExpectOff    == <<"e", "x", "p", "e", "c", "t", "-", "o", "f", "f">>
ExpectCrash  == <<"e", "x", "p", "e", "c", "t", "-", "c", "r", "a", "s", "h">>
ExpectFatal  == <<"e", "x", "p", "e", "c", "t", "-", "f", "a", "t", "a", "l">>

\* The values of CBI_CHECKPOINTS: every text of colons, stars and two
\* letters up to MaxEnvLen, and lists that name the predefined categories.
EnvChars == {"a", "l", ":", "*"}
EnvTexts ==
    UNION {[1..n -> EnvChars] : n \in 0..MaxEnvLen}
    \cup {ExpectOff,
          <<"a", ":">> \o ExpectOff,
          ExpectOff \o <<":", "a">>,
          <<"a", ":", "l", ":">> \o ExpectFatal,
          ExpectCrash \o <<":">> \o ExpectOff}

\* The categories the program constructs its debugging CheckPoints with.
Categories == {<<"a">>, <<"l">>, <<"a", "l">>}

\* The body of the if in CheckPoint::init for one piece of the text
\* (checkpoint.cpp:78-93).
init_category(st, cat) ==
    IF cat = Star \/ cat = All THEN [st EXCEPT !.all_ = TRUE]
    ELSE IF cat = ExpectOff THEN [st EXCEPT !.disabled_ = TRUE]
    ELSE IF cat = ExpectCrash THEN [st EXCEPT !.trap_ = "crash"]
    ELSE IF cat = ExpectFatal THEN [st EXCEPT !.trap_ = "fatal"]
    ELSE [st EXCEPT !.categories_ = Append(@, cat)]

\* The do ... while of CheckPoint::init (checkpoint.cpp:75-98) from the top
\* of one turn; begin and end count characters from 0, Len(ckpts) is
\* ckpts.end().  ++end comes before the test of *end.
RECURSIVE init_loop(_, _, _, _)
init_loop(ckpts, begin, end, st) ==
    LET e1 == end + 1 IN
    IF e1 = Len(ckpts) \/ ckpts[e1 + 1] = ":"
      THEN LET st1 == init_category(st, SubSeq(ckpts, begin + 1, e1)) IN
           IF e1 # Len(ckpts)
             THEN IF e1 + 1 # Len(ckpts)
                    THEN init_loop(ckpts, e1 + 1, e1 + 1, st1)
                    ELSE st1
             ELSE st1
      ELSE init_loop(ckpts, begin, e1, st)

\* CheckPoint::init(): once; nothing to do for an empty text.
CheckPoint_init(st) ==
    IF st.init_ THEN st
    ELSE IF st.env = <<>> THEN [st EXCEPT !.init_ = TRUE]
    ELSE init_loop(st.env, 0, 0, [st EXCEPT !.init_ = TRUE])

\* if (!init_) { init(); }
init_if_needed(st) == IF ~st.init_ THEN CheckPoint_init(st) ELSE st

\* if (!init) { init(); }   init is the function: the test is never true.
init_if_not_function(st) == st

\* CheckPoint::active(category), with the statics of st.
CheckPoint_active(st, category) ==
    \/ st.all_
    \/ \E i \in 1..Len(st.categories_) : st.categories_[i] = category

\* out(...); trap(here);   with the trap that init installed.
out_and_trap(st) ==
    [st EXCEPT !.printed = TRUE, !.trapped = TRUE,
               !.ended = (st.trap_ # "noop")]

\* CheckPoint dbg(category): active_ = active(category_), and active()
\* of the object: active_ in checkpoint.h, active_ && !disabled_ in
\* CheckPoint.h.
cp_construct(c) ==
    /\ ~cp.ended
    /\ LET st == init_if_needed(cp) IN
         cp' = [st EXCEPT !.dbg =
                   <<[category |-> c,
                      active_ |-> CheckPoint_active(st, c),
                      active |-> IF st.header = "CheckPoint.h"
                                   THEN CheckPoint_active(st, c) /\ ~st.disabled_
                                   ELSE CheckPoint_active(st, c)]>>]
    /\ UNCHANGED <<threadPoolVars, dg, tq, sr, io, stk, vg>>

\* CheckPoint::hit(here, args...)
cp_hit ==
    /\ ~cp.ended
    /\ LET st == init_if_needed(cp) IN
         cp' = IF st.disabled_ THEN st ELSE out_and_trap(st)
    /\ UNCHANGED <<threadPoolVars, dg, tq, sr, io, stk, vg>>

\* CheckPoint::expect(here, cond, args...): CheckPoint.h tests init_,
\* checkpoint.h tests init.
cp_expect(cond) ==
    /\ ~cp.ended
    /\ LET st == IF cp.header = "CheckPoint.h" THEN init_if_needed(cp)
                 ELSE init_if_not_function(cp) IN
         cp' = IF ~st.disabled_ /\ ~cond THEN out_and_trap(st) ELSE st
    /\ UNCHANGED <<threadPoolVars, dg, tq, sr, io, stk, vg>>

\* CheckPoint::ensure(here, cond, args...) of CheckPoint.h: it tests init
\* and returns the ScopeGuard.
cp_ensure ==
    /\ ~cp.ended
    /\ cp.header = "CheckPoint.h"
    /\ cp.guards < MaxGuards
    /\ cp' = [init_if_not_function(cp) EXCEPT !.guards = @ + 1]
    /\ UNCHANGED <<threadPoolVars, dg, tq, sr, io, stk, vg>>

\* The scope of an ensure() guard ends: ~ScopeGuard runs the lambda, which
\* evaluates the condition then.
cp_scope_exit(cond) ==
    /\ ~cp.ended
    /\ cp.guards > 0
    /\ LET st == [cp EXCEPT !.guards = @ - 1] IN
         cp' = IF ~st.disabled_ /\ ~cond THEN out_and_trap(st) ELSE st
    /\ UNCHANGED <<threadPoolVars, dg, tq, sr, io, stk, vg>>

CheckPointInit ==
    /\ ThreadPoolInit
    /\ dg = DiagNew
    /\ tq = TaskQueueNew
    /\ sr = StringRecordNew
    /\ cp \in {CheckPointStart(h, e) : h \in Headers, e \in EnvTexts}
    /\ io = Int128New
    /\ stk = InternalStackNew
    /\ vg = ValueGuardNew

CheckPointNext ==
    \/ \E c \in Categories : cp_construct(c)
    \/ cp_hit
    \/ \E cond \in BOOLEAN : cp_expect(cond)
    \/ cp_ensure
    \/ \E cond \in BOOLEAN : cp_scope_exit(cond)

CheckPointSpec == CheckPointInit /\ [][CheckPointNext]_vars

\* The elements of a colon-separated list: the pieces between the colons.
RECURSIVE Elements(_)
Elements(text) ==
    IF \A i \in 1..Len(text) : text[i] # ":" THEN {text}
    ELSE LET k == CHOOSE i \in 1..Len(text) :
                     text[i] = ":" /\ \A j \in 1..(i - 1) : text[j] # ":"
         IN {SubSeq(text, 1, k - 1)} \cup Elements(SubSeq(text, k + 1, Len(text)))

\* C25: in a process whose CBI_CHECKPOINTS lists expect-off no exception
\* CheckPoint has printed or called the trap, whatever was called first.
C25_ExpectOffSilences ==
    ExpectOff \in Elements(cp.env) => (~cp.printed /\ ~cp.trapped)

\* C26: the debugging CheckPoint constructed last is active exactly when
\* its category is an element of the list or the list has "*" or "all".
C26_ActiveIffListed ==
    cp.dbg # <<>> =>
        (cp.dbg[1].active <=>
            \/ cp.dbg[1].category \in Elements(cp.env)
            \/ Star \in Elements(cp.env)
            \/ All \in Elements(cp.env))

\* ============================================================= C27, C28
\* The stream operators for __int128 and unsigned __int128
\* (src/src/CompuBrite/int128_ostream.cpp, int128_istream.cpp).  The
\* operators are the code's, the integers are Bits wide instead of 128 so
\* that every value can be enumerated: the comparisons, the limits and the
\* most negative value are those of a two's complement type of that width.
\* A text is the sequence of its characters.
Bits == 8          \* width of the integer type
MaxTextLen == 3    \* length of the generated input texts

Int128Max  == 2^(Bits - 1) - 1      \* max_positive
Int128Min  == -(2^(Bits - 1))       \* max_negative, (__int128)1 << 127
UInt128Max == 2^Bits - 1            \* max_val

\* The value the target variable holds before the extraction (999 in the
\* tests): no text of the inputs reads as this value or as a prefix of it.
PreviousValue == 77

DigitsLower == <<"0", "1", "2", "3", "4", "5", "6", "7", "8", "9",
                 "a", "b", "c", "d", "e", "f">>
DigitsUpper == <<"0", "1", "2", "3", "4", "5", "6", "7", "8", "9",
                 "A", "B", "C", "D", "E", "F">>

\* Format flags of the output stream: decimal as a fresh stream has them,
\* std::hex with std::showbase, and some more.
Formats == {{"dec"}, {"hex", "showbase"}, {"hex", "showbase", "uppercase"},
            {"oct", "showbase"}, {"dec", "showpos"}}

\* Format flags of the input stream: a fresh stream, std::hex, std::oct.
ReadFlags == {{"dec"}, {"hex"}, {"oct"}}

\* Input texts that did not come from operator<<.
InputChars == {"0", "1", "9", "a", "x", "-", " "}
InputTexts == UNION {[1..n -> InputChars] : n \in 0..MaxTextLen}

\* ------------------------------------------------------------ operator<<
\* to_string_base: the digits of value, most significant first.
RECURSIVE to_string_digits(_, _, _)
to_string_digits(value, base, digits) ==
    IF value = 0 THEN <<>>
    ELSE Append(to_string_digits(value \div base, base, digits),
                digits[(value % base) + 1])

to_string_base(value, base, uppercase) ==
    IF value = 0 THEN <<"0">>
    ELSE to_string_digits(value, base,
                          IF uppercase THEN DigitsUpper ELSE DigitsLower)

\* std::string::substr(pos, n)
substr(s, pos, n) ==
    SubSeq(s, pos + 1, IF pos + n < Len(s) THEN pos + n ELSE Len(s))

\* apply_formatting with os.width() == 0, as a stream has it unless
\* std::setw precedes the value: the text goes out as it is.
apply_formatting(str) == str

\* operator<<(std::ostream&, __int128): the text written for value under
\* the format flags.
int128_write(value, flags) ==
    LET hex      == "hex" \in flags
        oct      == "oct" \in flags
        showbase == "showbase" \in flags
        showpos  == "showpos" \in flags
        upper    == "uppercase" \in flags
        prefix   == IF upper THEN <<"0", "X">> ELSE <<"0", "x">>
        base     == IF hex THEN 16 ELSE IF oct THEN 8 ELSE 10
    IN
    IF value = 0
      THEN apply_formatting(
             IF showbase /\ hex
               THEN (IF showpos THEN <<"+">> ELSE <<>>) \o prefix \o <<"0">>
             ELSE IF showpos THEN <<"+", "0">>
             ELSE <<"0">>)
      ELSE
        LET negative == value < 0
            most     == value = Int128Min
            \* lines 102-119: the most negative value is converted here,
            \* without a prefix; any other negative value is negated
            r1  == IF most
                     THEN <<"-">> \o to_string_base(2^(Bits - 1), base, upper)
                   ELSE IF ~negative /\ showpos THEN <<"+">>
                   ELSE <<>>
            mag == IF negative THEN -value ELSE value
            \* lines 122-146
            r2  == IF r1 = <<>> \/ (Len(r1) = 1 /\ r1[1] \in {"+", "-"})
                     THEN LET d0 == to_string_base(mag, base, upper)
                              d1 == IF showbase /\ base = 16 THEN prefix \o d0
                                    ELSE IF showbase /\ base = 8 /\ d0 # <<"0">>
                                      THEN <<"0">> \o d0
                                    ELSE d0
                          IN IF negative THEN <<"-">> \o d1
                             ELSE IF showpos THEN <<"+">> \o d1
                             ELSE d1
                   ELSE r1
            \* lines 149-158
            r3  == IF showbase /\ ~negative /\ ~showpos
                     THEN IF hex
                            THEN IF substr(r2, 0, 2) # prefix
                                   THEN prefix \o r2 ELSE r2
                          ELSE IF oct /\ r2[1] # "0" /\ r2 # <<"0">>
                            THEN <<"0">> \o r2
                          ELSE r2
                   ELSE r2
        IN apply_formatting(r3)

\* ------------------------------------------------------------ std::istream
\* A stream s is a record of text, pos, fail and eof.
\* is.get(c): a stream that is not good fails; at the end of the text it
\* sets eofbit and failbit; otherwise it yields the next character.
is_get(s) ==
    IF s.fail \/ s.eof THEN [ok |-> FALSE, c |-> "", s |-> [s EXCEPT !.fail = TRUE]]
    ELSE IF s.pos = Len(s.text)
      THEN [ok |-> FALSE, c |-> "", s |-> [s EXCEPT !.fail = TRUE, !.eof = TRUE]]
    ELSE [ok |-> TRUE, c |-> s.text[s.pos + 1], s |-> [s EXCEPT !.pos = @ + 1]]

\* is.unget(): clears eofbit, then steps back when the stream is good.
is_unget(s) ==
    IF s.fail THEN [s EXCEPT !.eof = FALSE]
    ELSE [s EXCEPT !.eof = FALSE, !.pos = IF @ > 0 THEN @ - 1 ELSE @]

\* is.setstate(std::ios::failbit)
is_setfail(s) == [s EXCEPT !.fail = TRUE]

\* is.clear()
is_clear(s) == [s EXCEPT !.fail = FALSE, !.eof = FALSE]

isspace(c) == c = " "

\* skip_whitespace_and_get: c is the first character that is not a space.
RECURSIVE skip_whitespace_and_get(_)
skip_whitespace_and_get(s) ==
    LET g == is_get(s) IN
    IF g.ok /\ isspace(g.c) THEN skip_whitespace_and_get(g.s) ELSE g

\* parse_sign(is, c, negative, allow_negative)
parse_sign(s, c, allow_negative) ==
    IF c = "-"
      THEN IF ~allow_negative
             THEN [ok |-> FALSE, s |-> is_setfail(is_unget(s)), c |-> c,
                   negative |-> FALSE]
           ELSE LET g == is_get(s) IN
                IF ~g.ok
                  THEN [ok |-> FALSE, s |-> is_setfail(g.s), c |-> c,
                        negative |-> TRUE]
                ELSE [ok |-> TRUE, s |-> g.s, c |-> g.c, negative |-> TRUE]
    ELSE IF c = "+"
      THEN LET g == is_get(s) IN
           IF ~g.ok
             THEN [ok |-> FALSE, s |-> is_setfail(g.s), c |-> c,
                   negative |-> FALSE]
           ELSE [ok |-> TRUE, s |-> g.s, c |-> g.c, negative |-> FALSE]
    ELSE [ok |-> TRUE, s |-> s, c |-> c, negative |-> FALSE]

\* determine_base_and_advance(is, c, flags); base -1 is the error.
determine_base_and_advance(s, c, flags) ==
    IF "hex" \in flags THEN [base |-> 16, s |-> s, c |-> c]
    ELSE IF "oct" \in flags THEN [base |-> 8, s |-> s, c |-> c]
    ELSE IF c # "0" THEN [base |-> 10, s |-> s, c |-> c]
    ELSE LET g == is_get(s) IN
         IF ~g.ok THEN [base |-> 10, s |-> g.s, c |-> c]
         ELSE IF g.c \in {"x", "X"}
           THEN LET g2 == is_get(g.s) IN
                IF ~g2.ok THEN [base |-> -1, s |-> is_setfail(g2.s), c |-> c]
                ELSE [base |-> 16, s |-> g2.s, c |-> g2.c]
         ELSE [base |-> 8, s |-> is_unget(g.s), c |-> c]

\* char_to_digit(c, base); -1 when c is no digit of the base.
char_to_digit(c, base) ==
    LET digit ==
          IF \E i \in 1..16 : DigitsLower[i] = c
            THEN (CHOOSE i \in 1..16 : DigitsLower[i] = c) - 1
          ELSE IF \E i \in 11..16 : DigitsUpper[i] = c
            THEN (CHOOSE i \in 11..16 : DigitsUpper[i] = c) - 1
          ELSE -1
    IN IF digit # -1 /\ digit < base THEN digit ELSE -1

\* finalize_stream(is)
finalize_stream(s) == IF ~s.fail THEN is_unget(s) ELSE is_clear(s)

\* The quotient of the built-in division: it is cut towards zero.
TruncDiv(a, b) == IF a >= 0 THEN a \div b ELSE -((-a) \div b)

\* The do ... while of operator>>(std::istream&, __int128&) from the top of
\* one turn, with the character c; value is the target variable.
\* how: "break" (c is no digit), "end" (get failed), "overflow" (return is).
RECURSIVE read_digits_signed(_, _, _, _, _)
read_digits_signed(s, c, base, negative, value) ==
    LET digit == char_to_digit(c, base) IN
    IF digit = -1 THEN [s |-> s, value |-> value, how |-> "break"]
    ELSE IF negative /\ value < TruncDiv(Int128Min + digit, base)
      THEN [s |-> is_setfail(s), value |-> value, how |-> "overflow"]
    ELSE IF ~negative /\ value > TruncDiv(Int128Max - digit, base)
      THEN [s |-> is_setfail(s), value |-> value, how |-> "overflow"]
    ELSE LET v2 == IF negative THEN value * base - digit
                   ELSE value * base + digit
             g  == is_get(s)
         IN IF g.ok THEN read_digits_signed(g.s, g.c, base, negative, v2)
            ELSE [s |-> g.s, value |-> v2, how |-> "end"]

\* The same loop of operator>>(std::istream&, unsigned __int128&).
RECURSIVE read_digits_unsigned(_, _, _, _)
read_digits_unsigned(s, c, base, value) ==
    LET digit == char_to_digit(c, base) IN
    IF digit = -1 THEN [s |-> s, value |-> value, how |-> "break"]
    ELSE IF value > TruncDiv(UInt128Max - digit, base)
      THEN [s |-> is_setfail(s), value |-> value, how |-> "overflow"]
    ELSE LET v2 == value * base + digit
             g  == is_get(s)
         IN IF g.ok THEN read_digits_unsigned(g.s, g.c, base, v2)
            ELSE [s |-> g.s, value |-> v2, how |-> "end"]

\* operator>> for both types: the stream and the target variable after the
\* call, for the stream s, the target's value and the format flags.
int128_read(s, value, flags, signed) ==
    LET g == skip_whitespace_and_get(s) IN
    IF ~g.ok THEN [s |-> g.s, value |-> value]
    ELSE
    LET sg == parse_sign(g.s, g.c, signed) IN
    IF ~sg.ok THEN [s |-> sg.s, value |-> value]
    ELSE
    LET b == determine_base_and_advance(sg.s, sg.c, flags) IN
    IF b.base = -1 THEN [s |-> b.s, value |-> value]
    ELSE IF char_to_digit(b.c, b.base) = -1
      THEN [s |-> is_setfail(is_unget(b.s)), value |-> value]
    ELSE
    \* value = 0; and the digits
    LET r == IF signed
               THEN read_digits_signed(b.s, b.c, b.base, sg.negative, 0)
             ELSE read_digits_unsigned(b.s, b.c, b.base, 0)
    IN IF r.how = "overflow" THEN [s |-> r.s, value |-> r.value]
       ELSE [s |-> finalize_stream(r.s), value |-> r.value]

\* ----------------------------------------------------------------- steps
\* oss << flags << v;  iss.str(oss.str());
io_write ==
    /\ io.stage = "value"
    /\ io' = [io EXCEPT !.stage = "text", !.text = int128_write(io.v, io.fmt)]
    /\ UNCHANGED <<threadPoolVars, dg, tq, sr, cp, stk, vg>>

\* The stream and the target after is >> target, as the fields of io.
io_after(r, typ) ==
    [io EXCEPT !.stage = "done", !.typ = typ, !.target = r.value,
               !.pos = r.s.pos, !.fail = r.s.fail, !.eof = r.s.eof]

\* __int128 target; iss >> target;
io_read_signed ==
    /\ io.stage = "text"
    /\ io' = io_after(int128_read([text |-> io.text, pos |-> io.pos,
                                    fail |-> io.fail, eof |-> io.eof],
                                   io.target, io.rflags, TRUE), "signed")
    /\ UNCHANGED <<threadPoolVars, dg, tq, sr, cp, stk, vg>>

\* unsigned __int128 target; iss >> target;
io_read_unsigned ==
    /\ io.stage = "text"
    /\ io' = io_after(int128_read([text |-> io.text, pos |-> io.pos,
                                    fail |-> io.fail, eof |-> io.eof],
                                   io.target, io.rflags, FALSE), "unsigned")
    /\ UNCHANGED <<threadPoolVars, dg, tq, sr, cp, stk, vg>>

\* Either a value of the type to write and read back, or a text to read.
Int128Init ==
    /\ ThreadPoolInit
    /\ dg = DiagNew
    /\ tq = TaskQueueNew
    /\ sr = StringRecordNew
    /\ cp = CheckPointNew
    /\ io \in {Int128Stream("value", v, f, <<>>, rf, "written", PreviousValue) :
                  v \in Int128Min..Int128Max, f \in Formats, rf \in ReadFlags}
            \cup {Int128Stream("text", 0, {"dec"}, t, rf, "given", PreviousValue) :
                  t \in InputTexts, rf \in ReadFlags}
    /\ stk = InternalStackNew
    /\ vg = ValueGuardNew

Int128Next ==
    \/ io_write
    \/ io_read_signed
    \/ io_read_unsigned

Int128Spec == Int128Init /\ [][Int128Next]_vars

\* C27: a signed value written in decimal, or in hex with showbase, and
\* read back from a fresh input stream into a signed target is the value
\* written, and the stream has not failed.
C27_RoundTrip ==
    (/\ io.stage = "done"
     /\ io.src = "written"
     /\ io.typ = "signed"
     /\ io.fmt \in {{"dec"}, {"hex", "showbase"}}
     /\ io.rflags = {"dec"})
        => (io.target = io.v /\ ~io.fail)

\* C28: after an extraction that failed the fail bit is set and the target
\* variable holds what it held before the call.
C28_FailureKeepsTarget ==
    (io.stage = "done" /\ io.fail) => io.target = io.before

\* ================================================================= C29
\* internal_stack<T> (src/include/CompuBrite/internal_stack.h).
MaxFrames == 4     \* frames constructed in one run

\* What the process does with a failed expectation: the default no-op
\* trap, expect-off, or a trap that ends the process (expect-fatal).
Policies == {"noop", "off", "fatal"}

\* The youngest frame alive, 0 when there is none.
Youngest(alive) ==
    IF alive = {} THEN 0 ELSE CHOOSE f \in alive : \A g \in alive : g <= f

dtor_top_null(f) == 0

\* _top = _prev; in the destructor of frame f
dtor_top(f) == stk.prev[f]

\* internal_stack(pointer ptr): _prev = _top; _top = this;
stk_construct ==
    /\ ~stk.ended
    /\ Len(stk.prev) < MaxFrames
    /\ stk' = [stk EXCEPT !.prev = Append(@, stk.top),
                           !.top = Len(stk.prev) + 1,
                           !.alive = @ \cup {Len(stk.prev) + 1}]
    /\ UNCHANGED <<threadPoolVars, dg, tq, sr, cp, io, vg>>

\* ~internal_stack() of frame f: the expectation _top == this, then
\* _top = _prev unless the trap ended the process.
stk_destroy(f) ==
    /\ ~stk.ended
    /\ f \in stk.alive
    /\ LET ok == stk.top = f IN
       stk' = [stk EXCEPT
                 !.failed = @ \/ ~ok,
                 !.ended = ~ok /\ stk.policy = "fatal",
                 !.top = IF ~ok /\ stk.policy = "fatal" THEN @ ELSE dtor_top(f),
                 !.alive = @ \ {f},
                 !.nested = @ /\ f = Youngest(stk.alive)]
    /\ UNCHANGED <<threadPoolVars, dg, tq, sr, cp, io, vg>>

InternalStackInit ==
    /\ ThreadPoolInit
    /\ dg = DiagNew
    /\ tq = TaskQueueNew
    /\ sr = StringRecordNew
    /\ cp = CheckPointNew
    /\ io = Int128New
    /\ stk \in {InternalStackStart(p) : p \in Policies}
    /\ vg = ValueGuardNew

InternalStackNext ==
    \/ stk_construct
    \/ \E f \in 1..MaxFrames : stk_destroy(f)

InternalStackSpec == InternalStackInit /\ [][InternalStackNext]_vars

\* C29: a new frame is top() and its prev() is the top before; destroying
\* the top frame makes top() the frame that was top when it was made;
\* while every destruction was that of the youngest frame alive, top() is
\* the youngest frame alive (nullptr when none is) and no expectation has
\* failed; destroying a frame that is not top() fails the expectation.
C29_LifoChain ==
    /\ [][stk_construct =>
             /\ stk'.top = Len(stk.prev) + 1
             /\ stk'.prev[stk'.top] = stk.top]_vars
    /\ [][\A f \in 1..MaxFrames :
             stk_destroy(f) =>
                 /\ (f = stk.top => stk'.top = stk.prev[f] /\ stk'.failed = stk.failed)
                 /\ (f # stk.top => stk'.failed)]_vars
    /\ [](stk.nested => (stk.top = Youngest(stk.alive) /\ ~stk.failed))

\* Two nested frames, the inner one destroyed: top() is the outer one again.
C29_Witness ==
    /\ Len(stk.prev) = 2
    /\ stk.alive = {1}
    /\ stk.top = 1
    /\ stk.nested
    /\ ~stk.failed

\* ================================================================= C30
\* value_guard<T> (src/include/CompuBrite/value_guard.h).
MaxValue == 3      \* the variable holds 0..MaxValue
MaxNest == 3       \* guards alive at once on the variable

Values == 0..MaxValue

original_value_init_late(target, new_value) == new_value

\* original_value_(target) in the member initialiser list, before
\* target_ = new_value in the body
original_value_init(target, new_value) == target

\* value_guard(T& target, T new_value)
vg_construct(new_value) ==
    /\ Len(vg.guards) < MaxNest
    /\ vg' = [vg EXCEPT
                !.guards = Append(@, [original_value_ |->
                                          original_value_init(vg.target, new_value),
                                      seen |-> vg.target]),
                !.target = new_value,
                !.base = IF vg.guards = <<>> THEN vg.target ELSE @]
    /\ UNCHANGED <<threadPoolVars, dg, tq, sr, cp, io, stk>>

\* reset(new_value) on any guard alive: target_ = new_value
vg_reset(i, new_value) ==
    /\ i \in 1..Len(vg.guards)
    /\ vg' = [vg EXCEPT !.target = new_value]
    /\ UNCHANGED <<threadPoolVars, dg, tq, sr, cp, io, stk>>

\* ~value_guard() of the innermost guard: target_ = original_value_
vg_destroy ==
    /\ vg.guards # <<>>
    /\ vg' = [vg EXCEPT
                !.target = vg.guards[Len(vg.guards)].original_value_,
                !.guards = SubSeq(@, 1, Len(@) - 1)]
    /\ UNCHANGED <<threadPoolVars, dg, tq, sr, cp, io, stk>>

\* The program assigns to the variable while no guard is on it.
vg_assign(x) ==
    /\ vg.guards = <<>>
    /\ x # vg.target
    /\ vg' = [vg EXCEPT !.target = x, !.base = x]
    /\ UNCHANGED <<threadPoolVars, dg, tq, sr, cp, io, stk>>

ValueGuardInit ==
    /\ ThreadPoolInit
    /\ dg = DiagNew
    /\ tq = TaskQueueNew
    /\ sr = StringRecordNew
    /\ cp = CheckPointNew
    /\ io = Int128New
    /\ stk = InternalStackNew
    /\ vg \in {ValueGuardStart(v) : v \in Values}

ValueGuardNext ==
    \/ \E x \in Values : vg_construct(x)
    \/ \E i \in 1..MaxNest : \E x \in Values : vg_reset(i, x)
    \/ vg_destroy
    \/ \E x \in Values : vg_assign(x)

ValueGuardSpec == ValueGuardInit /\ [][ValueGuardNext]_vars

\* C30: original() of every guard is the value the variable had when the
\* guard was made, whatever was reset since; destroying a guard puts that
\* value back; and when the outermost guard is gone the variable holds
\* what it held before that guard was made.
C30_RestoresOriginal ==
    /\ [](\A i \in 1..Len(vg.guards) :
             vg.guards[i].original_value_ = vg.guards[i].seen)
    /\ [][vg_destroy =>
             /\ vg'.target = vg.guards[Len(vg.guards)].seen
             /\ (vg'.guards = <<>> => vg'.target = vg.base)]_vars
    /\ [][\A i \in 1..MaxNest : \A x \in Values :
             vg_reset(i, x) => vg'.guards = vg.guards]_vars

\* The variable was 1, a guard set it to 0 and a reset to 2: the guard
\* still has 1 to restore.
C30_Witness ==
    /\ Len(vg.guards) = 1
    /\ vg.guards[1].seen = 1
    /\ vg.guards[1].original_value_ = 1
    /\ vg.target = 2
    /\ vg.base = 1

\* =================================================================== C31
\* The three places of a submitted task.
StillQueued(t) ==
    /\ Cardinality(Positions(t)) = 1
    /\ Holders(t) = {}
    /\ t \notin Dequeued
    /\ execCount[t] = 0

TakenAndRunning(t) ==
    /\ Positions(t) = {}
    /\ Cardinality(Holders(t)) = 1
    /\ t \in Dequeued
    /\ execCount[t] = 0

Completed(t) ==
    /\ Positions(t) = {}
    /\ Holders(t) = {}
    /\ t \in Dequeued
    /\ execCount[t] = 1

\* C31: while the process runs, every submitted task is in exactly one of
\* three places: in the queue (once), in the hands of one worker that runs
\* it, or completed; no task is dequeued twice; and a task that was not
\* submitted is in none of the places.
C31_Conservation ==
    /\ ~crashed =>
          \A t \in TaskIds :
              IF t \in Submitted
                THEN \/ StillQueued(t) /\ ~TakenAndRunning(t) /\ ~Completed(t)
                     \/ ~StillQueued(t) /\ TakenAndRunning(t) /\ ~Completed(t)
                     \/ ~StillQueued(t) /\ ~TakenAndRunning(t) /\ Completed(t)
                ELSE Positions(t) = {} /\ Holders(t) = {} /\ execCount[t] = 0
    /\ \A i, j \in 1..Len(deqLog) : i # j => deqLog[i] # deqLog[j]
    /\ \A t \in TaskIds : execCount[t] <= 1

\* shutdown() has returned while worker 1 runs task 1 and task 2 waits in
\* the queue of the pool that is not active any more.
C31_Witness ==
    /\ phase = "shut"
    /\ ~active
    /\ pc[1] = "run"
    /\ cur[1] = 1
    /\ tasks = <<2>>
    /\ execCount[1] = 0

\* =================================================================== C32
\* C32: _active, _tasks and _threads are written only by a thread that
\* holds the pool's mutex: the flag and the handles by the controlling
\* thread while it owns the mutex, a removal from the queue by the worker
\* that owns it, an append inside the critical section of an addTask.
C32_LockDiscipline ==
    [][/\ active' # active => mutex = Ctl
       /\ threads' # threads => mutex' = Ctl
       /\ joinable' # joinable => (mutex = Ctl \/ mutex' = Ctl)
       /\ Len(tasks') < Len(tasks) =>
             \E w \in Workers : mutex = w /\ pc[w] = "take"
       /\ Len(tasks') > Len(tasks) =>
             (addTask \/ \E w \in Workers : mutex = w /\ pc[w] = "submit")]_vars

\* =================================================================== C33
\* C33: a worker that runs a task does not own the mutex: the step that
\* removes the front task releases it and the worker goes on to the task
\* only then; running the task does not take it; so while a task runs and
\* the mutex is free, an addTask can take it, and so can any other worker
\* that is at lock().
C33_NoLockWhileRunning ==
    /\ [](\A w \in Workers : pc[w] = "run" => mutex # w)
    /\ [][\A w \in Workers :
            /\ (svc_take(w) /\ tasks # <<>>) =>
                  (tasks' = Tail(tasks) /\ mutex' = NoOwner /\ pc'[w] = "run")
            /\ svc_run(w) => (mutex # w /\ mutex' = mutex)]_vars
    /\ [](\A w \in Workers :
            (pc[w] = "run" /\ mutex = NoOwner /\ ~crashed) =>
                /\ (nTasks < MaxTasks /\ phase # "dead") => ENABLED addTask
                /\ (phase # "dead" /\ ctl = "idle") => ENABLED shutdown_store
                /\ \A v \in Workers : pc[v] = "lock" => ENABLED svc_lock(v))

\* Worker 1 runs a task while worker 2 owns the mutex and is at the queue.
C33_Witness ==
    /\ pc[1] = "run"
    /\ pc[2] = "take"
    /\ mutex = 2
    /\ tasks # <<>>

\* =================================================================== C34
\* C34: a worker leaves svc only with the flag clear, never while an
\* activate is between spawning and setting the flag, and only when a
\* shutdown() (or the destructor) has stored the flag since the last
\* activate began; activate owns the mutex from the spawning to the store
\* of the flag, so a new worker cannot look at the flag before; and a
\* worker that takes the mutex on an active pool with an empty queue
\* executes nothing, takes nothing and blocks again.
C34_NoExitWhileActive ==
    /\ [][\A w \in Workers :
            Exits(w) =>
                /\ ~active
                /\ ctl # "act"
                /\ (ctl \in {"sd", "dsd"} \/ phase # "fresh")]_vars
    /\ [](ctl = "act" => mutex = Ctl)
    /\ [][\A w \in Workers :
            (svc_lock(w) /\ active /\ tasks = <<>>) =>
                /\ pc'[w] = "block"
                /\ execCount' = execCount
                /\ cur' = cur]_vars
    /\ [][\A w \in Workers :
            (pc[w] = "block" /\ pc'[w] # "block") => pc'[w] = "waiting"]_vars

\* The pool is active and its queue empty: worker 2 runs the only task,
\* and worker 1, released by the broadcast of that submission, has found
\* the queue empty and is about to block again.
C34_Witness ==
    /\ active
    /\ ~coldSubmit
    /\ tasks = <<>>
    /\ pc[2] = "run"
    /\ pc[1] = "block"
    /\ nTasks = 1

\* =================================================================== C35
\* The tasks that are being executed, and the threads that execute one.
Executing == {t \in TaskIds : Holders(t) # {}}
Executors == {w \in Workers : pc[w] \in {"run", "submit"}}

\* C35: a task is invoked only by a step of a worker thread that activate
\* has started, on the one task that worker holds; a submission invokes
\* nothing; a worker holds one task while it runs and none otherwise; so
\* neither the tasks being executed nor the threads executing them are
\* more than the workers activated.
C35_OnlyWorkersExecute ==
    /\ [][/\ execCount' # execCount =>
                \E w \in 1..threads :
                    /\ svc_run(w)
                    /\ execCount' = [execCount EXCEPT ![cur[w]] = @ + 1]
          /\ (addTask \/ addTaskRet) => execCount' = execCount]_vars
    /\ [](\A w \in Workers :
            IF w \in Executors
              THEN w <= threads /\ cur[w] \in Submitted
              ELSE cur[w] = 0)
    /\ [](Cardinality(Executing) <= Cardinality(Executors))
    /\ [](Cardinality(Executors) <= threads)

\* Two workers were activated and each of them executes a task of its own.
C35_Witness ==
    /\ threads = 2
    /\ Executors = {1, 2}
    /\ Cardinality(Executing) = 2
    /\ ~crashed

\* =================================================================== C36
\* C36: once wait() has sent the notification for its last handle, and
\* while the pool is inactive, no worker is blocked in _cv.wait.
C36_FinalWakeLeavesNoneParked ==
    (~active /\ ctl = "wjoin" /\ joinIdx = threads) => Waiting = {}

\* =================================================================== C37
\* The diagnostics of the pool (ThreadPool.h:119-129), called by any thread
\* at any moment of the pool's life.

\* bool active() const { return _active; }   an atomic load, no lock.
diag_active ==
    /\ ~crashed
    /\ phase # "dead"
    /\ dg' = [op |-> "active", flag |-> active, size |-> 0,
              locked |-> FALSE, raced |-> FALSE]
    /\ UNCHANGED <<threadPoolVars, tq, sr, cp, io, stk, vg>>

\* size_t threads() const { auto l = lock(); return _threads.size(); }
\* lock, read and unlock with nothing in between.
diag_threads ==
    /\ ~crashed
    /\ phase # "dead"
    /\ mutex = NoOwner
    /\ dg' = [op |-> "threads", flag |-> FALSE, size |-> threads,
              locked |-> TRUE, raced |-> FALSE]
    /\ UNCHANGED <<threadPoolVars, tq, sr, cp, io, stk, vg>>

\* A worker is inside the critical section in which it pops the front task.
Popping == \E w \in Workers : pc[w] = "take" /\ mutex = w /\ tasks # <<>>

\* A worker is inside the critical section of an addTask, about to append.
Appending == \E w \in Workers : pc[w] = "submit" /\ mutex = w

\* size_t tasks() const { return _tasks.size(); }   no lock.  A read that
\* falls into a critical section on the list is not ordered with the write
\* made there: it returns the size before or the size after.
diag_tasks ==
    /\ ~crashed
    /\ phase # "dead"
    /\ \E n \in {Len(tasks)}
               \cup (IF Popping THEN {Len(tasks) - 1} ELSE {})
               \cup (IF Appending THEN {Len(tasks) + 1} ELSE {}) :
          dg' = [op |-> "tasks", flag |-> FALSE, size |-> n,
                 locked |-> FALSE, raced |-> (Popping \/ Appending)]
    /\ UNCHANGED <<threadPoolVars, tq, sr, cp, io, stk, vg>>

\* The pool and threads that call its diagnostics.
DiagNext ==
    \/ Next
    \/ diag_active
    \/ diag_threads
    \/ diag_tasks

DiagSpec == Init /\ [][DiagNext]_vars

\* C37: each diagnostic takes the pool's mutex for its read, so it runs
\* only when the mutex is free, changes nothing of the pool, and tasks()
\* never reads the queue inside another thread's critical section.
C37_DiagnosticsLocked ==
    /\ [](dg.op # "none" => dg.locked)
    /\ [][dg' # dg => (mutex = NoOwner /\ UNCHANGED threadPoolVars)]_vars
    /\ [](dg.op = "tasks" => ~dg.raced)

\* =================================================================== C38
\* C38: a worker owns the mutex from its evaluation of the predicate until
\* it blocks, and addTask appends and notifies inside its own critical
\* section, so its broadcast releases every blocked worker and none can
\* block between the append and the broadcast; hence while the pool is
\* active and a task submitted with addTask is in the queue, the threads
\* in svc are not all blocked on the condition.
C38_NoLostWakeup ==
    /\ [](\A w \in Workers : pc[w] = "block" => mutex = w)
    /\ [][(addTask \/ \E v \in Workers : task_addTask_emplace(v)) =>
             /\ Len(tasks') = Len(tasks) + 1
             /\ \A w \in Workers : pc[w] = "waiting" => pc'[w] = "lock"]_vars
    /\ []((/\ active
           /\ InSvc # {}
           /\ \E t \in Queued : kind[t] = "plain")
              => \E w \in InSvc : pc[w] # "waiting")

\* Task 1 was executed and task 2, submitted with addTask to the active
\* pool, is in the queue; both workers are about to take the mutex.
C38_Witness ==
    /\ active
    /\ ~coldSubmit
    /\ execCount[1] = 1
    /\ tasks = <<2>>
    /\ kind[2] = "plain"
    /\ pc[1] = "lock"
    /\ pc[2] = "lock"
    /\ mutex = NoOwner

\* =================================================================== C39
\* A step of shutdown(), of wait(), of activate() or of the destructor.
LifecycleStep ==
    \/ shutdown_store
    \/ shutdown_notify
    \/ wait_begin
    \/ wait_notify
    \/ wait_join
    \/ dtor_begin
    \/ dtor_notify
    \/ \E n \in 0..MaxThreads : activate_begin(n)
    \/ activate_end

\* C39: no step of shutdown(), wait(), activate() or the destructor, and
\* no worker that leaves svc, changes the queue; the queue holds its tasks
\* in the order of their submission and tasks are dequeued in that order;
\* and once the pool is active with a worker that is not blocked, as after
\* activate(n >= 1), every queued task is executed, unless shutdown()
\* clears the flag first or the process dies.
C39_InactiveQueueKept ==
    /\ [][/\ LifecycleStep => tasks' = tasks
          /\ \A w \in Workers : Exits(w) => tasks' = tasks]_vars
    /\ [](\A i, j \in 1..Len(tasks) : i < j => tasks[i] < tasks[j])
    /\ [](\A i, j \in 1..Len(deqLog) : i < j => deqLog[i] < deqLog[j])
    /\ [](\A i \in 1..Len(deqLog) : \A j \in 1..Len(tasks) : deqLog[i] < tasks[j])
    /\ \A t \in TaskIds :
          (/\ active
           /\ t \in Queued
           /\ \E w \in Workers : pc[w] \in {"lock", "take", "run", "submit"})
              ~> (execCount[t] = 1 \/ ~active \/ crashed)

\* shutdown() and wait() have returned, the only worker has left svc, and
\* both tasks are in the queue in the order of their submission.
C39_Witness ==
    /\ phase = "quiesced"
    /\ ~active
    /\ threads = 1
    /\ pc[1] = "exited"
    /\ tasks = <<1, 2>>
====
